---- MODULE Spec2Model ----
(***************************************************************************)
(* Model of the two dump importers of wiki_import:                         *)
(*   import_wikipedia.py  - the wikitext pipeline (pages -> import.wikipedia)*)
(*   update_wikidata.py   - the entity pipeline (pages -> parse_props)     *)
(* Both are SAX content handlers (WikiXmlHandler) fed by xml.sax in        *)
(* document order.  The pure functions map_value and parse_props of        *)
(* update_wikidata.py are modelled as operators and exercised by SpecProps.*)
(*                                                                         *)
(* Strings are sequences of atoms; an atom stands for a run of characters  *)
(* (AtomLen gives its length).  Python's None is the record None.          *)
(***************************************************************************)
EXTENDS Integers, Sequences, FiniteSets, TLC

VARIABLES
  pipeline,      \* which script runs: "wikipedia" or "wikidata"
  elems,         \* the elements the SAX parser has open (innermost last)
  _state,        \* WikiXmlHandler._state
  _buffer,       \* WikiXmlHandler._buffer
  _values,       \* WikiXmlHandler._values
  _count,        \* WikiXmlHandler._count
  _id_name_map,  \* WikiXmlHandler._id_name_map / the id_name_map argument
  sink,          \* the calls made on the cursor and the connection, in order
  aborted,       \* an exception left endElement: parser.feed raises, the run ends
  closed,        \* history: number of page elements closed so far
  last,          \* history: how the last close of a page element ended
  own,           \* history: the text atoms delivered since the last page open
  chunks,        \* history: number of characters() calls so far
  fn,            \* SpecProps: the pure function under test
  arg,           \* SpecProps: its argument
  out            \* SpecProps: its result (NotCalled before the call)

vars == <<pipeline, elems, _state, _buffer, _values, _count, _id_name_map, sink,
          aborted, closed, last, own, chunks, fn, arg, out>>

streamVars == <<pipeline, elems, _state, _buffer, _values, _count, sink,
                aborted, closed, last, own, chunks>>

(***************************************************************************)
(* Bounds of the model.                                                    *)
(***************************************************************************)
MaxPages == 3      \* page elements per stream
MaxChunks == 1     \* characters() calls per stream
MaxDepth == 2      \* nesting depth of open elements below the root
MaxClaims == 3     \* statements per property in a parse_props input

(***************************************************************************)
(* Program constants.                                                      *)
(***************************************************************************)
CommitEvery == 100000    \* if self._count % 100000 == 0
MaxFieldLen == 1024      \* len(...) > 1024
MaxTagLen == 256         \* len(x) < 256

None == [k |-> "None"]

Fields == {"title", "text", "id"}
Names == Fields \cup {"page", "revision"}

(***************************************************************************)
(* Strings.  A string is a sequence of tokens; a token is a run of         *)
(* characters whose length TokLen gives.  "L" is a run of 1025 letters,    *)
(* "<unparseable>" is markup on which mwparserfromhell raises ParserError. *)
(***************************************************************************)
TokLen(t) ==
  CASE t = "L" -> 1025
    [] t \in {"{{", "}}"} -> 2
    [] t \in {"Infobox", "infobox"} -> 7
    [] t = "settlement" -> 10
    [] t = "person" -> 6
    [] OTHER -> 1

RECURSIVE StrLen(_)
StrLen(s) == IF s = << >> THEN 0 ELSE TokLen(Head(s)) + StrLen(Tail(s))

\* ''.join(self._buffer)
RECURSIVE Join(_)
Join(buffer) == IF buffer = << >> THEN << >> ELSE Head(buffer) \o Join(Tail(buffer))

\* str.lower(), token by token
LowerTok(t) == IF t = "Infobox" THEN "infobox" ELSE t
Lower(s) == [i \in 1..Len(s) |-> LowerTok(s[i])]

\* str.strip(): drop leading and trailing blanks
RECURSIVE LStrip(_)
LStrip(s) == IF s # << >> /\ Head(s) = " " THEN LStrip(Tail(s)) ELSE s
RECURSIVE RStrip(_)
RStrip(s) ==
  IF s # << >> /\ s[Len(s)] = " " THEN RStrip(SubSeq(s, 1, Len(s) - 1)) ELSE s
Strip(s) == RStrip(LStrip(s))

StartsWith(s, prefix) ==
  Len(s) >= Len(prefix) /\ SubSeq(s, 1, Len(prefix)) = prefix

Atoms(s) == {s[i] : i \in 1..Len(s)}

INFOBOX_PREFIX == <<"infobox", " ">>

\* A template invocation {{name}} as a string.
Tpl(name) == <<"{{">> \o name \o <<"}}">>

(***************************************************************************)
(* The wikitext parser (mwparserfromhell), as far as the handler uses it.  *)
(***************************************************************************)
\* mwparserfromhell.parse(text) raises ParserError
ParserFails(text) == "<unparseable>" \in Atoms(text)

\* index of the first "}}" at or after position i, 0 when there is none
RECURSIVE CloseAt(_, _)
CloseAt(text, i) ==
  IF i > Len(text) THEN 0
  ELSE IF text[i] = "}}" THEN i ELSE CloseAt(text, i + 1)

\* wikicode.filter_templates(): the template invocations, in document order,
\* each as the pair <<name, whole invocation>>
RECURSIVE FilterTemplates(_, _)
FilterTemplates(text, i) ==
  IF i > Len(text) THEN << >>
  ELSE IF text[i] = "{{" /\ CloseAt(text, i + 1) > 0
       THEN LET j == CloseAt(text, i + 1)
            IN  << <<SubSeq(text, i + 1, j - 1), SubSeq(text, i, j)>> >>
                  \o FilterTemplates(text, j + 1)
       ELSE FilterTemplates(text, i + 1)

\* strip_template_name(name): name.strip_code().strip()
strip_template_name(name) == Strip(name)

\* make_tags(iterable), for an iterable given as a sequence; the result is
\* list(set(...)): its order is the set's iteration order, so it is a set here
make_tags(iterable) ==
  {Lower(Strip(iterable[i])) :
     i \in {n \in 1..Len(iterable) :
              iterable[n] # << >> /\ StrLen(iterable[n]) < MaxTagLen}}

\* The values the loop of lines 88-92 can leave in infobox: the first element
\* of template_names, in the list's order, that starts with the prefix.  The
\* list comes from a set, so any element with the prefix can be the first.
InfoboxChoices(template_names) ==
  LET hits == {t \in template_names : StartsWith(t, INFOBOX_PREFIX)}
  IN  IF hits = {} THEN {None}
      ELSE {[k |-> "str", s |-> SubSeq(t, Len(INFOBOX_PREFIX) + 1, Len(t))] : t \in hits}

\* len(infobox or '')
InfoboxLen(infobox) == IF infobox = None THEN 0 ELSE StrLen(infobox.s)

\* the limit as it would be were the title not tested
TooLongInfoboxOnly(infobox, title) ==
  InfoboxLen(infobox) > MaxFieldLen

\* line 93: len(infobox or '') > 1024 or len(self._values['title']) > 1024
TooLong(infobox, title) ==
  InfoboxLen(infobox) > MaxFieldLen \/ StrLen(title) > MaxFieldLen

(***************************************************************************)
(* Python and JSON values of update_wikidata.py.  A value is a record      *)
(* tagged by k: None, "str" (s a string), "num" (n an integer; the model   *)
(* has no fractions), "list" (l a sequence), "dict" (d a function from     *)
(* keys to values).  A raised exception is the record Raise(name).         *)
(***************************************************************************)
Str(s) == [k |-> "str", s |-> s]
Num(n) == [k |-> "num", n |-> n]
List(q) == [k |-> "list", l |-> q]
Dict(f) == [k |-> "dict", d |-> f]
EmptyDict == Dict([x \in {} |-> None])
Raise(e) == [k |-> "raise", e |-> e]
IsRaise(x) == x.k = "raise"

\* Python truthiness: bool(x)
Truthy(x) ==
  CASE x.k = "None" -> FALSE
    [] x.k = "str" -> x.s # ""
    [] x.k = "num" -> x.n # 0
    [] x.k = "list" -> x.l # << >>
    [] x.k = "dict" -> DOMAIN x.d # {}
    [] OTHER -> TRUE

\* key in d
Has(d, key) == d.k = "dict" /\ key \in DOMAIN d.d
\* d.get(key); None also when d is no dict (the callers test d before)
Get(d, key) == IF Has(d, key) THEN d.d[key] ELSE None
\* id_name_map.get(key) for a key given as a value
MapGet(id_name_map, key) ==
  IF key.k = "str" /\ key.s \in DOMAIN id_name_map THEN Str(id_name_map[key.s]) ELSE None

(***************************************************************************)
(* Library conversions on the strings the model feeds them.                *)
(***************************************************************************)
\* DATE_PARSE_RE.match(s), then map(int, groups()): the six numbers, or << >>
\* when the pattern does not match
DateParse(s) ==
  CASE s = "+1999-00-00T00:00:00Z" -> <<1999, 0, 0, 0, 0, 0>>
    [] s = "+2001-09-11T00:00:00Z" -> <<2001, 9, 11, 0, 0, 0>>
    [] OTHER -> << >>

\* '%04d-%02d-%02dT%02d:%02d:%02d' % (year, month, day, hour, minute, second)
DateFormat(t) ==
  CASE t = <<1999, 1, 1, 0, 0, 0>> -> "1999-01-01T00:00:00"
    [] t = <<2001, 9, 11, 0, 0, 0>> -> "2001-09-11T00:00:00"
    [] OTHER -> "0000-00-00T00:00:00"

\* float(s): the number, or a ValueError
Float(s) ==
  CASE s = "0" -> Num(0)
    [] s = "+5" -> Num(5)
    [] OTHER -> Raise("ValueError")

\* s.rsplit('/', 1)[-1]
LastSegment(s) ==
  CASE s = "http://www.wikidata.org/entity/Q2" -> "Q2"
    [] s = "http://www.wikidata.org/entity/Q111" -> "Q111"
    [] s = "http://www.wikidata.org/entity/Q405" -> "Q405"
    [] OTHER -> s

\* map_value(value, id_name_map), lines 49-59: the globecoordinate branch
MapCoordinate(value, id_name_map) ==
  LET lat == Get(value, "latitude")
      lng == Get(value, "longitude")
      rawGlobe == IF Has(value, "globe") THEN value.d["globe"] ELSE Str("")
      globe == LastSegment(rawGlobe.s)
      res == ("lat" :> lat) @@ ("lng" :> lng)
      withGlobe == IF globe # "Q2" /\ globe \in DOMAIN id_name_map
                   THEN ("globe" :> Str(globe)) @@ res ELSE res
      withAlt == IF Truthy(Get(value, "altitude"))
                 THEN ("altitude" :> value.d["altitude"]) @@ withGlobe ELSE withGlobe
  IN  IF Truthy(lat) \/ Truthy(lng)
      THEN IF rawGlobe.k # "str" THEN Raise("AttributeError") ELSE Dict(withAlt)
      ELSE None

\* map_value(value, id_name_map); value is a dict or None
MapValue(value, id_name_map) ==
  IF ~Truthy(value) \/ ~Has(value, "type") \/ ~Has(value, "value") THEN None
  ELSE
    LET typ == value.d["type"]
        val == value.d["value"]
    IN  CASE typ = Str("string") -> val
          [] typ = Str("wikibase-entityid") ->
               IF val.k # "dict" THEN Raise("TypeError")
               ELSE IF ~Has(val, "id") THEN Raise("KeyError")
               ELSE MapGet(id_name_map, val.d["id"])
          [] typ = Str("time") ->
               IF val.k # "dict" THEN Raise("TypeError")
               ELSE IF ~Has(val, "time") THEN Raise("KeyError")
               ELSE LET g == DateParse(val.d["time"].s)
                    IN  IF g = << >> THEN None
                        ELSE Str(DateFormat(<<g[1],
                                              IF g[2] = 0 THEN 1 ELSE g[2],
                                              IF g[3] = 0 THEN 1 ELSE g[3],
                                              g[4], g[5], g[6]>>))
          [] typ = Str("quantity") ->
               IF val.k # "dict" THEN Raise("TypeError")
               ELSE IF ~Has(val, "amount") THEN Raise("KeyError")
               ELSE Float(val.d["amount"].s)
          [] typ = Str("monolingualtext") ->
               IF val.k # "dict" THEN Raise("TypeError")
               ELSE IF ~Has(val, "text") THEN Raise("KeyError")
               ELSE val.d["text"]
          [] typ = Str("globecoordinate") ->
               IF val.k # "dict" THEN Raise("AttributeError")
               ELSE MapCoordinate(val, id_name_map)
          [] OTHER -> None

(***************************************************************************)
(* sorted() on a list of values.  Strings compare by code point: StrOrder  *)
(* lists the strings of the model in that order.  Numbers compare by       *)
(* value.  A list that mixes kinds, or holds dicts, raises TypeError as    *)
(* soon as two elements are compared.                                      *)
(***************************************************************************)
StrOrder == <<"", "1999-01-01T00:00:00", "2001-09-11T00:00:00", "B", "C", "T",
              "W", "X", "Y", "text">>
StrRank(s) == CHOOSE i \in 1..Len(StrOrder) : StrOrder[i] = s
SortKey(x) == IF x.k = "str" THEN StrRank(x.s) ELSE x.n

\* insert x into the sorted sequence q, after the elements that are not greater
RECURSIVE InsertSorted(_, _)
InsertSorted(x, q) ==
  IF q = << >> THEN <<x>>
  ELSE IF SortKey(x) < SortKey(Head(q)) THEN <<x>> \o q
  ELSE <<Head(q)>> \o InsertSorted(x, Tail(q))

RECURSIVE SortValues(_)
SortValues(q) ==
  IF q = << >> THEN << >> ELSE InsertSorted(q[Len(q)], SortValues(SubSeq(q, 1, Len(q) - 1)))

Sorted(value) ==
  IF Len(value) >= 2
     /\ ~(\A i \in 1..Len(value) : value[i].k = "str")
     /\ ~(\A i \in 1..Len(value) : value[i].k = "num")
  THEN Raise("TypeError")
  ELSE List(SortValues(value))

\* the elements of a finite set in one fixed order (the keys of a dict in
\* the dict's iteration order)
RECURSIVE SetToSeq(_)
SetToSeq(S) ==
  IF S = {} THEN << >>
  ELSE LET x == CHOOSE x \in S : TRUE IN <<x>> \o SetToSeq(S \ {x})

(***************************************************************************)
(* parse_props: the statement aggregation of lines 104-125.                *)
(***************************************************************************)
\* ranks[r] of the defaultdict(list)
Bucket(ranks, r) == IF r \in DOMAIN ranks THEN ranks[r] ELSE << >>

\* the bucket as it would be were every value appended
PutValueAppend(lst, datavalue, data_value) ==
  Append(lst, data_value)

\* lines 114-116: what the bucket lst holds after one resolved statement
PutValue(lst, datavalue, data_value) ==
  IF Get(datavalue, "type") # Str("wikibase-entityid")
  THEN <<data_value>>
  ELSE Append(lst, data_value)

\* lines 109-116: the body of "for claim in claims" on the dict ranks:
\* Ok(the new ranks), or the exception raised
Ok(x) == [k |-> "ok", o |-> x]
ClaimStep(ranks, claim, id_name_map) ==
  LET mainsnak == Get(claim, "mainsnak")
      datavalue == Get(mainsnak, "datavalue")
      data_value == MapValue(datavalue, id_name_map)
  IN  IF ~Truthy(mainsnak) THEN Ok(ranks)
      ELSE IF IsRaise(data_value) THEN data_value
      ELSE IF ~Truthy(data_value) THEN Ok(ranks)
      ELSE IF ~Has(claim, "rank") THEN Raise("KeyError")
      ELSE LET r == claim.d["rank"].s
           IN  Ok((r :> PutValue(Bucket(ranks, r), datavalue, data_value)) @@ ranks)

\* lines 107-116: Ok(ranks) after the statements claims[i..], or the exception
RECURSIVE Ranks(_, _, _, _)
Ranks(ranks, claims, i, id_name_map) ==
  IF i > Len(claims) THEN Ok(ranks)
  ELSE LET next == ClaimStep(ranks, claims[i], id_name_map)
       IN  IF IsRaise(next) THEN next
           ELSE Ranks(next.o, claims, i + 1, id_name_map)

\* line 117: for r in 'preferred', 'normal', 'depricated'
RankOrder == <<"preferred", "normal", "depricated">>

\* the collapse as it would be without the sort
CollapseUnsorted(value) == IF Len(value) = 1 THEN value[1] ELSE List(value)

\* lines 120-123
Collapse(value) == IF Len(value) = 1 THEN value[1] ELSE Sorted(value)

\* lines 117-125: the value the property gets; NoValue when every bucket of
\* RankOrder is empty (the property is not set)
NoValue == [k |-> "unset"]
RECURSIVE PickRank(_, _)
PickRank(ranks, i) ==
  IF i > Len(RankOrder) THEN NoValue
  ELSE IF Bucket(ranks, RankOrder[i]) # << >> THEN Collapse(Bucket(ranks, RankOrder[i]))
  ELSE PickRank(ranks, i + 1)

\* lines 104-125: properties after the property ids props[i..] of d['claims']
RECURSIVE Properties(_, _, _, _, _)
Properties(properties, claims, props, i, id_name_map) ==
  IF i > Len(props) THEN Dict(properties)
  ELSE
    LET prop_id == props[i]
        prop_name == MapGet(id_name_map, Str(prop_id))
        ranks == Ranks([x \in {} |-> << >>], claims.d[prop_id].l, 1, id_name_map)
        value == PickRank(ranks.o, 1)
    IN  IF ~Truthy(prop_name) THEN Properties(properties, claims, props, i + 1, id_name_map)
        ELSE IF IsRaise(ranks) THEN ranks
        ELSE IF value = NoValue THEN Properties(properties, claims, props, i + 1, id_name_map)
        ELSE IF IsRaise(value) THEN value
        ELSE Properties((prop_name.s :> value) @@ properties, claims, props, i + 1,
                        id_name_map)

(***************************************************************************)
(* parse_props(d, id_name_map), lines 64-129.  The result is the 6-tuple   *)
(* as a record, or the exception raised.                                   *)
(***************************************************************************)
Tuple6(wikipedia_id, title, labels, sitelinks, description, properties) ==
  [k |-> "tuple", wikipedia_id |-> wikipedia_id, title |-> title, labels |-> labels,
   sitelinks |-> sitelinks, description |-> description, properties |-> properties]

\* return None, None, None, None, None, None
NoneTuple == Tuple6(None, None, None, None, None, None)

\* [dct[x][key] for x in dct] for a dict dct: the list, or the exception
Pluck(dct, key) ==
  LET ks == SetToSeq(DOMAIN dct.d)
  IN  IF \E x \in DOMAIN dct.d : dct.d[x].k # "dict" THEN Raise("TypeError")
      ELSE IF \E x \in DOMAIN dct.d : ~Has(dct.d[x], key) THEN Raise("KeyError")
      ELSE List([i \in 1..Len(ks) |-> dct.d[ks[i]].d[key]])

\* dct.get(lang, {}).get(key), or the exception
GetGet(dct, lang, key) ==
  IF ~Has(dct, lang) THEN None
  ELSE IF dct.d[lang].k # "dict" THEN Raise("AttributeError")
  ELSE Get(dct.d[lang], key)

\* lines 76-82: <<sitelinks, wikipedia_id>>; any exception leaves the
\* assignment it interrupts, and those after it, undone
SiteLinks(d) ==
  LET raw == Get(d, "sitelinks")
  IN  IF ~Has(d, "sitelinks") THEN <<List(<< >>), None>>
      ELSE IF raw.k = "list" /\ raw.l = << >> THEN <<List(<< >>), None>>
      ELSE IF raw.k # "dict" THEN <<None, None>>
      ELSE LET sitelinks == Pluck(raw, "title")
               wikipedia_id == GetGet(raw, "enwiki", "title")
           IN  IF IsRaise(sitelinks) THEN <<None, None>>
               ELSE IF IsRaise(wikipedia_id) THEN <<sitelinks, None>>
               ELSE <<sitelinks, wikipedia_id>>

\* lines 84-88
Description(d) ==
  IF ~Has(d, "descriptions") \/ Get(d, "descriptions").k # "dict" THEN None
  ELSE LET x == GetGet(d.d["descriptions"], "en", "value")
       IN  IF IsRaise(x) THEN None ELSE x

parse_props(d, id_name_map) ==
  IF d.k # "dict" THEN NoneTuple
  ELSE IF ~(Has(d, "labels") /\ d.d["labels"].k = "dict" /\ Truthy(d.d["labels"]))
  THEN NoneTuple
  ELSE
    LET labels == Pluck(d.d["labels"], "value")
        title == GetGet(d.d["labels"], "en", "value")
        sl == SiteLinks(d)
        sitelinks == sl[1]
        wikipedia_id == sl[2]
        description == Description(d)
        properties == ("sitelinks" :> Get(d, "sitelinks")) @@ ("labels" :> Get(d, "labels"))
    IN  IF IsRaise(labels) THEN labels
        ELSE IF IsRaise(title) THEN title
        ELSE IF ~(Truthy(wikipedia_id) /\ Truthy(title)) THEN NoneTuple
        ELSE IF ~Has(d, "claims") THEN Raise("KeyError")
        ELSE IF d.d["claims"].k # "dict" THEN NoneTuple
        ELSE LET props == Properties(properties, d.d["claims"],
                                     SetToSeq(DOMAIN d.d["claims"].d), 1, id_name_map)
             IN  IF IsRaise(props) THEN props
                 ELSE Tuple6(wikipedia_id, title, labels, sitelinks, description, props)

(***************************************************************************)
(* Inputs of the pure functions: Wikidata JSON as the dumps carry it.      *)
(***************************************************************************)
\* the lookup main() builds (line 217), and a filled one
EmptyMap == [x \in {} |-> ""]
TestMap == ("P31" :> "instance of") @@ ("Q1" :> "X") @@ ("Q3" :> "Y") @@ ("Q111" :> "Mars")

DataValue(type, value) == Dict(("type" :> Str(type)) @@ ("value" :> value))
EntityRef(id) == DataValue("wikibase-entityid",
                           Dict(("entity-type" :> Str("item")) @@ ("id" :> Str(id))))
Statement(rank, datavalue) ==
  Dict(("mainsnak" :> Dict(("snaktype" :> Str("value")) @@ ("datavalue" :> datavalue)))
       @@ ("rank" :> Str(rank)))
\* a statement "unknown value": its mainsnak has no datavalue
SomeValue(rank) ==
  Dict(("mainsnak" :> Dict("snaktype" :> Str("somevalue"))) @@ ("rank" :> Str(rank)))

WikidataRanks == {"preferred", "normal", "deprecated"}

StatementValues ==
  {DataValue("string", Str("B")), DataValue("string", Str("C")),
   EntityRef("Q1"), EntityRef("Q3"), EntityRef("Q9"),
   DataValue("quantity", Dict("amount" :> Str("0"))),
   DataValue("quantity", Dict("amount" :> Str("+5")))}

Statements == {Statement(r, dv) : r \in WikidataRanks, dv \in StatementValues}

SeqsUpTo(S, n) == UNION {[1..m -> S] : m \in 0..n}

EnLabel == Dict("en" :> Dict(("language" :> Str("en")) @@ ("value" :> Str("T"))))
EnSitelink == Dict("enwiki" :> Dict(("site" :> Str("enwiki")) @@ ("title" :> Str("W"))))

\* an entity with an English label, an enwiki sitelink and the given claims
Entity(claims) ==
  Dict(("id" :> Str("Q42")) @@ ("labels" :> EnLabel) @@ ("sitelinks" :> EnSitelink)
       @@ ("claims" :> claims))

\* entities whose shape is off, by the name the stream's chunks use for them
OddEntities ==
  ("{good}" :> Entity(Dict("P31" :> List(<<Statement("normal", EntityRef("Q1"))>>))))
  @@ ("{noclaims}" :> Dict(("id" :> Str("Q42")) @@ ("labels" :> EnLabel)
                            @@ ("sitelinks" :> EnSitelink)))
  @@ ("{labelnovalue}" :> Dict(("id" :> Str("Q42"))
                                @@ ("labels" :> Dict("en" :> Dict("language" :> Str("en"))))
                                @@ ("sitelinks" :> EnSitelink) @@ ("claims" :> EmptyDict)))
  @@ ("{nolabels}" :> Dict(("id" :> Str("Q42")) @@ ("sitelinks" :> EnSitelink)
                            @@ ("claims" :> EmptyDict)))
  @@ ("{nositelinks}" :> Dict(("id" :> Str("Q42")) @@ ("labels" :> EnLabel)
                               @@ ("sitelinks" :> List(<< >>)) @@ ("claims" :> EmptyDict)))
  @@ ("[]" :> List(<< >>))

ParsePropsInputs ==
  {Entity(Dict("P31" :> List(sts))) : sts \in SeqsUpTo(Statements, MaxClaims)}
  \cup {Entity(Dict("P99" :> List(sts))) : sts \in SeqsUpTo(Statements, 1)}
  \cup {Entity(Dict("P31" :> List(<<st>>))) :
          st \in {SomeValue("normal"),
                  Statement("normal", DataValue("quantity", Dict("amount" :> Str("abc")))),
                  Dict("mainsnak" :> Dict(("snaktype" :> Str("value"))
                                          @@ ("datavalue" :> EntityRef("Q1"))))}}
  \cup {OddEntities[n] : n \in DOMAIN OddEntities}

Absent == [k |-> "absent"]
\* a dict from the pairs whose value is not Absent
DictOf(pairs) ==
  Dict([x \in {p[1] : p \in {q \in pairs : q[2] # Absent}} |->
          (CHOOSE p \in pairs : p[1] = x)[2]])

Coordinates ==
  {DataValue("globecoordinate",
             DictOf({<<"latitude", lat>>, <<"longitude", lng>>, <<"globe", globe>>,
                     <<"altitude", alt>>})) :
     lat \in {Absent, None, Num(0), Num(48)},
     lng \in {Absent, None, Num(0), Num(2)},
     globe \in {Absent, Str("http://www.wikidata.org/entity/Q2"),
                Str("http://www.wikidata.org/entity/Q111"),
                Str("http://www.wikidata.org/entity/Q405")},
     alt \in {Absent, None, Num(5)}}

MapValueInputs ==
  Coordinates \cup StatementValues
  \cup {None, EmptyDict, Dict("type" :> Str("string")), Dict("value" :> Str("B")),
        DataValue("string", Str("")), DataValue("commonsMedia", Str("B")),
        DataValue("wikibase-entityid", Dict("numeric-id" :> Num(1))),
        DataValue("time", Dict("time" :> Str("+1999-00-00T00:00:00Z"))),
        DataValue("time", Dict("time" :> Str("+2001-09-11T00:00:00Z"))),
        DataValue("time", Dict("time" :> Str("unknown"))),
        DataValue("time", EmptyDict),
        DataValue("quantity", Dict("amount" :> Str("abc"))),
        DataValue("monolingualtext", Dict(("language" :> Str("en")) @@ ("text" :> Str("text")))),
        DataValue("globecoordinate", Dict(("latitude" :> Num(48)) @@ ("globe" :> None)))}

(***************************************************************************)
(* The SAX content handlers.  _state is a field name or NoState (None).    *)
(***************************************************************************)
NoState == "None"
NoValues == [x \in {} |-> << >>]

\* a reset that would leave the tracked field set
resetKeepsState == [buffer |-> << >>, state |-> "text", values |-> NoValues]

\* reset(): the handler's _buffer, _state and _values after it
reset == [buffer |-> << >>, state |-> NoState, values |-> NoValues]

\* the text the environment's characters() calls deliver, per pipeline
WikipediaChunks ==
  {<<"a">>, <<"<unparseable>">>, <<"L">>, Tpl(<<"Infobox", " ", "settlement">>),
   Tpl(<<"Infobox", " ", "L">>),
   Tpl(<<"Infobox", " ", "settlement">>) \o Tpl(<<"infobox", " ", "person">>)}
WikidataChunks ==
  {<<"junk">>, <<"{good}">>, <<"{noclaims}">>, <<"{labelnovalue}">>, <<"{nolabels}">>}
Chunks == IF pipeline = "wikipedia" THEN WikipediaChunks ELSE WikidataChunks

\* json.loads(data): Ok(the value), or the ValueError raised.  A body decodes
\* when it is exactly one of the documents of OddEntities.
JsonLoads(data) ==
  IF Len(data) = 1 /\ data[1] \in DOMAIN OddEntities
  THEN Ok(OddEntities[data[1]]) ELSE Raise("ValueError")

OpenPages == Cardinality({i \in 1..Len(elems) : elems[i] = "page"})

\* startElement(name, attrs), the same in both handlers.  The documents are
\* well nested, and title, text and id hold character data only, as in the
\* MediaWiki export schema; they may occur anywhere, also outside a page.
StartElement(name) ==
  /\ ~aborted
  /\ fn = "none"
  /\ Len(elems) < MaxDepth
  /\ elems # << >> => elems[Len(elems)] \notin Fields
  /\ name = "page" => closed + OpenPages < MaxPages
  /\ elems' = Append(elems, name)
  /\ _state' = IF name \in Fields THEN name ELSE _state
  /\ own' = IF name = "page" THEN {} ELSE own
  /\ UNCHANGED <<pipeline, _buffer, _values, _count, _id_name_map, sink, aborted,
                 closed, last, chunks, fn, arg, out>>

\* characters(content), the same in both handlers
Characters(content) ==
  /\ ~aborted
  /\ fn = "none"
  /\ chunks < MaxChunks
  /\ chunks' = chunks + 1
  /\ _buffer' = IF _state # NoState THEN Append(_buffer, content) ELSE _buffer
  /\ own' = own \cup Atoms(content)
  /\ UNCHANGED <<pipeline, elems, _state, _values, _count, _id_name_map, sink,
                 aborted, closed, last, fn, arg, out>>

\* lines 78-81 (182-185): the close of the active field commits the buffer
\* unless the field has a value already
CloseField(name) ==
  /\ _values' = IF name = _state /\ name \notin DOMAIN _values
                THEN (name :> Join(_buffer)) @@ _values ELSE _values
  /\ _state' = IF name = _state THEN NoState ELSE _state
  /\ _buffer' = IF name = _state THEN << >> ELSE _buffer

\* the row of the INSERT of lines 100-101 (categories and general, which no
\* branch depends on, are left out)
Row(values, infobox, templates) ==
  [id |-> values["id"], title |-> values["title"], infobox |-> infobox,
   wikitext |-> values["text"],
   templates |-> make_tags([i \in 1..Len(templates) |-> templates[i][2]])]

\* lines 84-108 of import_wikipedia.py up to the INSERT, for the infobox the
\* loop of lines 88-92 found: "insert" with the row, "ParserError" when the
\* exception the except clause catches is raised and its handler completes,
\* "raise" when an exception leaves endElement
PageWikipedia(values, infobox, templates) ==
  IF "text" \notin DOMAIN values THEN [kind |-> "raise"]
  ELSE IF ParserFails(values["text"])
  THEN IF "title" \in DOMAIN values THEN [kind |-> "ParserError"] ELSE [kind |-> "raise"]
  ELSE IF InfoboxLen(infobox) <= MaxFieldLen /\ "title" \notin DOMAIN values
  THEN [kind |-> "raise"]
  ELSE IF TooLong(infobox, IF "title" \in DOMAIN values THEN values["title"] ELSE << >>)
  THEN IF "title" \in DOMAIN values THEN [kind |-> "ParserError"] ELSE [kind |-> "raise"]
  ELSE IF "id" \notin DOMAIN values THEN [kind |-> "raise"]
  ELSE [kind |-> "insert", row |-> Row(values, infobox, templates)]

\* the calls as they would be with the commit one record early
SinkCallsEarly(row, count) ==
  <<[call |-> "execute", row |-> row]>>
    \o (IF (count + 1) % CommitEvery = 0 THEN <<[call |-> "commit"]>> ELSE << >>)

\* lines 102-106: the calls on the sink for one row, given the new count
SinkCalls(row, count) ==
  <<[call |-> "execute", row |-> row]>>
    \o (IF count % CommitEvery = 0 THEN <<[call |-> "commit"]>> ELSE << >>)

\* lines 85-87: the templates of the page's text, none when the text is
\* missing or unparseable, and their normalised names
PageTemplates(values) ==
  IF "text" \in DOMAIN values /\ ~ParserFails(values["text"])
  THEN FilterTemplates(values["text"], 1) ELSE << >>

TemplateNames(templates) ==
  make_tags([i \in 1..Len(templates) |-> strip_template_name(templates[i][1])])

\* lines 83-109: the page branch of endElement, given the outcome res of the
\* try block
ClosePageWikipedia(res) ==
  /\ closed' = closed + 1
  /\ last' = res.kind
  /\ aborted' = (res.kind = "raise")
  /\ _count' = IF res.kind = "insert" THEN _count + 1 ELSE _count
  /\ sink' = IF res.kind = "insert"
             THEN sink \o SinkCalls(res.row, _count + 1) ELSE sink
  /\ IF res.kind = "raise"
     THEN UNCHANGED <<_buffer, _state, _values>>
     ELSE /\ _buffer' = reset.buffer
          /\ _state' = reset.state
          /\ _values' = reset.values

\* endElement(name) of import_wikipedia.py
EndElementWikipedia ==
  /\ ~aborted
  /\ fn = "none"
  /\ pipeline = "wikipedia"
  /\ elems # << >>
  /\ elems' = SubSeq(elems, 1, Len(elems) - 1)
  /\ IF elems[Len(elems)] # "page"
     THEN /\ CloseField(elems[Len(elems)])
          /\ UNCHANGED <<_count, sink, aborted, closed, last>>
     ELSE \E infobox \in InfoboxChoices(TemplateNames(PageTemplates(_values))) :
            ClosePageWikipedia(PageWikipedia(_values, infobox, PageTemplates(_values)))
  /\ UNCHANGED <<pipeline, _id_name_map, own, chunks, fn, arg, out>>

\* lines 193-206: the outcome of the page given what parse_props returned or
\* raised: "counted" when the try block runs to its end, "ValueError" when
\* the exception the except clause catches is raised, "raise" when an
\* exception leaves endElement
PageParsed(res) ==
  IF ~IsRaise(res) THEN [kind |-> "counted", record |-> res]
  ELSE IF res.e = "ValueError" THEN [kind |-> "ValueError"]
  ELSE [kind |-> "raise"]

\* lines 191-206: the outcome of the page given what json.loads returned or
\* raised
PageDecoded(data, id_name_map) ==
  IF IsRaise(data) THEN [kind |-> "ValueError"]
  ELSE PageParsed(parse_props(data.o, id_name_map))

\* the outcome as it would be were the page counted before it is decoded
PageWikidataCountsFirst(values, id_name_map) ==
  IF "title" \notin DOMAIN values \/ "text" \notin DOMAIN values THEN [kind |-> "raise"]
  ELSE [kind |-> "counted"]

\* lines 188-206 of update_wikidata.py
PageWikidata(values, id_name_map) ==
  IF "title" \notin DOMAIN values \/ "text" \notin DOMAIN values THEN [kind |-> "raise"]
  ELSE PageDecoded(JsonLoads(values["text"]), id_name_map)

\* lines 187-207: the page branch of endElement, given the outcome res of the
\* try block
ClosePageWikidata(res) ==
  /\ closed' = closed + 1
  /\ last' = res.kind
  /\ aborted' = (res.kind = "raise")
  /\ _count' = IF res.kind = "counted" THEN _count + 1 ELSE _count
  /\ IF res.kind = "raise"
     THEN UNCHANGED <<_buffer, _state, _values>>
     ELSE /\ _buffer' = reset.buffer
          /\ _state' = reset.state
          /\ _values' = reset.values

\* endElement(name) of update_wikidata.py
EndElementWikidata ==
  /\ ~aborted
  /\ fn = "none"
  /\ pipeline = "wikidata"
  /\ elems # << >>
  /\ elems' = SubSeq(elems, 1, Len(elems) - 1)
  /\ IF elems[Len(elems)] # "page"
     THEN /\ CloseField(elems[Len(elems)])
          /\ UNCHANGED <<_count, aborted, closed, last>>
     ELSE ClosePageWikidata(PageWikidata(_values, _id_name_map))
  /\ UNCHANGED <<pipeline, _id_name_map, sink, own, chunks, fn, arg, out>>

(***************************************************************************)
(* The stream: one handler, constructed by main(), fed by the SAX parser.  *)
(***************************************************************************)
NotCalled == [k |-> "notcalled"]

InitHandler ==
  /\ elems = << >>
  /\ _buffer = reset.buffer
  /\ _state = reset.state
  /\ _values = reset.values
  /\ sink = << >>
  /\ aborted = FALSE
  /\ closed = 0
  /\ last = "none"
  /\ own = {}
  /\ chunks = 0

Init ==
  /\ pipeline \in {"wikipedia", "wikidata"}
  /\ _count = 0
  /\ _id_name_map = EmptyMap
  /\ InitHandler
  /\ fn = "none"
  /\ arg = None
  /\ out = NotCalled

Next ==
  \/ \E name \in Names : StartElement(name)
  \/ \E content \in Chunks : Characters(content)
  \/ EndElementWikipedia
  \/ EndElementWikidata

Spec == Init /\ [][Next]_vars

(***************************************************************************)
(* The stream seen from a later point: the handler is between two pages    *)
(* and has counted _count pages; sink holds the calls made from then on.   *)
(***************************************************************************)
ResumeCounts == {CommitEvery - 2, 2 * CommitEvery - 1}

InitWindow ==
  /\ pipeline \in {"wikipedia", "wikidata"}
  /\ _count \in ResumeCounts
  /\ _id_name_map = EmptyMap
  /\ InitHandler
  /\ fn = "none"
  /\ arg = None
  /\ out = NotCalled

SpecWindow == InitWindow /\ [][Next]_vars

(***************************************************************************)
(* The pure functions map_value and parse_props, applied to one input.     *)
(***************************************************************************)
InitProps ==
  /\ pipeline = "wikidata"
  /\ _count = 0
  /\ InitHandler
  /\ _id_name_map \in {EmptyMap, TestMap}
  /\ out = NotCalled
  /\ \/ fn = "map_value" /\ arg \in MapValueInputs
     \/ fn = "parse_props" /\ arg \in ParsePropsInputs

CallMapValue ==
  /\ fn = "map_value"
  /\ out = NotCalled
  /\ out' = MapValue(arg, _id_name_map)
  /\ UNCHANGED <<streamVars, _id_name_map, fn, arg>>

CallParseProps ==
  /\ fn = "parse_props"
  /\ out = NotCalled
  /\ out' = parse_props(arg, _id_name_map)
  /\ UNCHANGED <<streamVars, _id_name_map, fn, arg>>

NextProps == CallMapValue \/ CallParseProps

SpecProps == InitProps /\ [][NextProps]_vars

(***************************************************************************)
(* Properties of the stream.                                               *)
(***************************************************************************)
\* this step is endElement('page')
PageClose == elems # << >> /\ elems[Len(elems)] = "page" /\ closed' = closed + 1

\* the handler is as reset() leaves it
IsReset(buffer, state, values) ==
  buffer = << >> /\ state = NoState /\ values = NoValues

Executes(calls) == Cardinality({i \in 1..Len(calls) : calls[i].call = "execute"})

\* a page with title, text and id raises a parse-specific error: the parser
\* rejects its text, or its title or the infobox found is over the limit
PageRejected(values) ==
  \/ ParserFails(values["text"])
  \/ StrLen(values["title"]) > MaxFieldLen
  \/ LET templates == FilterTemplates(values["text"], 1)
         names == make_tags([i \in 1..Len(templates) |-> Strip(templates[i][1])])
     IN  \E infobox \in InfoboxChoices(names) : InfoboxLen(infobox) > MaxFieldLen

\* C1: wikitext pipeline, at the close of a page that has title, text and id:
\* a page that raises a parse-specific error adds nothing to the sink, ends
\* no run and leaves the handler reset for the next page; any other page
\* adds exactly one INSERT, of its own id, title and text, after the rows of
\* the pages before it.  So of N such pages with one rejected, N-1 rows are
\* inserted, in document order.
C1_OneBadPageDropsOneRecord ==
  [][(pipeline = "wikipedia" /\ PageClose /\ DOMAIN _values = Fields) =>
       /\ ~aborted'
       /\ IsReset(_buffer', _state', _values')
       /\ IF PageRejected(_values)
          THEN sink' = sink
          ELSE /\ Len(sink') > Len(sink)
               /\ SubSeq(sink', 1, Len(sink)) = sink
               /\ Executes(sink') = Executes(sink) + 1
               /\ LET new == sink'[Len(sink) + 1]
                  IN  /\ new.call = "execute"
                      /\ new.row.id = _values["id"]
                      /\ new.row.title = _values["title"]
                      /\ new.row.wikitext = _values["text"]]_vars

\* three pages closed, the last one inserted, and one before it rejected
C1_Witness ==
  /\ pipeline = "wikipedia"
  /\ closed = 3
  /\ Executes(sink) = 2
  /\ last = "insert"
  /\ ~aborted

\* C2: in both pipelines no exception leaves the page-close handler, whatever
\* the content of the page: the run is never aborted.
C2_NoFailureEscapes == ~aborted

\* the entity pipeline's json.loads is reached and raises
DecodeFails(values) ==
  /\ {"title", "text"} \subseteq DOMAIN values
  /\ IsRaise(JsonLoads(values["text"]))

\* C3: entity pipeline, at the close of a page whose body fails to decode:
\* nothing is emitted, the counter keeps its value, the run goes on, and the
\* handler's field, buffer and values are empty, as before any page.
C3_DecodeFailureDropsPage ==
  [][(pipeline = "wikidata" /\ PageClose /\ DecodeFails(_values)) =>
       /\ _count' = _count
       /\ sink' = sink
       /\ ~aborted'
       /\ IsReset(_buffer', _state', _values')]_vars

\* a page failed to decode, and a later page was processed and counted
C3_Witness ==
  /\ pipeline = "wikidata"
  /\ closed >= 2
  /\ _count = closed - 1
  /\ last = "counted"
  /\ ~aborted

\* C4: whenever the close of a page element returns, the handler holds no
\* text, and the raw page it read held only text delivered since that page
\* was opened.
C4_OnlyOwnText ==
  [][(PageClose /\ ~aborted') =>
       /\ IsReset(_buffer', _state', _values')
       /\ \A f \in DOMAIN _values : Atoms(_values[f]) \subseteq own]_vars

\* the try block of the page-close handler runs to its end
PageCompletes(values) ==
  IF pipeline = "wikipedia"
  THEN DOMAIN values = Fields /\ ~PageRejected(values)
  ELSE /\ {"title", "text"} \subseteq DOMAIN values
       /\ ~IsRaise(JsonLoads(values["text"]))
       /\ ~IsRaise(parse_props(JsonLoads(values["text"]).o, _id_name_map))

\* C5, as claimed: the counter never decreases and grows by one at every
\* close of a page element that returns, whatever became of the page.
C5_CountsEveryPage ==
  [][_count' >= _count /\ ((PageClose /\ ~aborted') => _count' = _count + 1)]_vars

\* C5, amended: the counter changes only at the close of a page element; it
\* grows by one when the page's processing runs to the end of its try block
\* and keeps its value when the processing raised.
C5_CountsCompletedPages ==
  [][IF PageClose /\ PageCompletes(_values)
     THEN _count' = _count + 1
     ELSE _count' = _count]_vars

\* three pages closed, two of them counted, one rejected
C5_Witness ==
  /\ closed = 3
  /\ _count = 2
  /\ last \in {"ParserError", "ValueError"}
  /\ ~aborted

\* C6: wikitext pipeline: the calls a page close adds to the sink hold a
\* commit exactly when the counter reaches a positive multiple of
\* CommitEvery in that step, and then they are the page's INSERT followed by
\* that one commit; no other step touches the sink.
C6_CommitAtMultiples ==
  [][IF pipeline = "wikipedia" /\ PageClose
     THEN LET new == SubSeq(sink', Len(sink) + 1, Len(sink'))
              reached == _count' # _count /\ _count' > 0 /\ _count' % CommitEvery = 0
          IN  /\ SubSeq(sink', 1, Len(sink)) = sink
              /\ (\E i \in 1..Len(new) : new[i].call = "commit") <=> reached
              /\ reached => /\ Len(new) = 2
                            /\ new[1].call = "execute"
                            /\ new[2].call = "commit"
     ELSE sink' = sink]_vars

\* the counter passed CommitEvery: one commit, right after the INSERT that
\* reached it, and none after the next INSERT
C6_Witness ==
  /\ pipeline = "wikipedia"
  /\ _count = CommitEvery + 1
  /\ Len(sink) = 4
  /\ sink[2].call = "execute"
  /\ sink[3].call = "commit"
  /\ sink[4].call = "execute"

(***************************************************************************)
(* Properties of parse_props and map_value, stated on the input arg and    *)
(* the result out of the call.                                             *)
(***************************************************************************)
\* parse_props returned a record with properties
Materialized ==
  fn = "parse_props" /\ out # NotCalled /\ out.k = "tuple" /\ out.properties # None

\* the statements of property p of the input, and the name of p
StatementsOf(p) == arg.d["claims"].d[p].l
NameOf(p) == MapGet(_id_name_map, Str(p))
NamedProps == {p \in DOMAIN arg.d["claims"].d : Truthy(NameOf(p))}

\* what a statement's main value resolves to
StResolved(st) == MapValue(Get(Get(st, "mainsnak"), "datavalue"), _id_name_map)
\* the statement resolves to a value (one that is not empty or zero)
StKept(st) == ~IsRaise(StResolved(st)) /\ Truthy(StResolved(st))
StIsEntity(st) ==
  Get(Get(Get(st, "mainsnak"), "datavalue"), "type") = Str("wikibase-entityid")

\* the positions of the statements of rank r that resolve to a value
Idx(sts, r) == {i \in 1..Len(sts) : StKept(sts[i]) /\ Get(sts[i], "rank") = Str(r)}

\* the resolved values of the statements at the positions S, in statement order
ValuesAt(sts, S) ==
  LET F[i \in 0..Len(sts)] ==
        IF i = 0 THEN << >>
        ELSE IF i \in S THEN Append(F[i - 1], StResolved(sts[i])) ELSE F[i - 1]
  IN  F[Len(sts)]

\* the first rank of order that has a resolving statement, "" if none has
FirstRank(sts, order) ==
  LET hits == {i \in 1..Len(order) : Idx(sts, order[i]) # {}}
  IN  IF hits = {} THEN "" ELSE order[CHOOSE i \in hits : \A j \in hits : i <= j]

\* every element of the final value v (a scalar or a list) is in S
ValueFrom(v, S) ==
  IF v.k = "list" THEN \A i \in 1..Len(v.l) : v.l[i] \in S ELSE v \in S

\* C7: for every property whose id resolves to a name and which has a
\* statement resolving to a value, the property is in the output and its
\* value comes from the statements of the first rank, in the order
\* preferred, normal, deprecated, that has a resolving statement.
C7_RankPriority ==
  Materialized =>
    \A p \in NamedProps :
      LET sts == StatementsOf(p)
          win == FirstRank(sts, <<"preferred", "normal", "deprecated">>)
      IN  win # "" =>
            /\ NameOf(p).s \in DOMAIN out.properties.d
            /\ ValueFrom(out.properties.d[NameOf(p).s],
                         {StResolved(sts[i]) : i \in Idx(sts, win)})

\* parse_props was called on an entity with a dict of claims
Aggregated ==
  /\ fn = "parse_props"
  /\ out # NotCalled
  /\ Has(arg, "claims")
  /\ arg.d["claims"].k = "dict"

\* the rank buckets after the statements sts, or what their resolution raised
RanksOf(sts) == Ranks([x \in {} |-> << >>], sts, 1, _id_name_map)

\* the position of the last resolving non-entity statement of rank r, or 0
LastNonEntity(sts, r) ==
  LET non == {i \in Idx(sts, r) : ~StIsEntity(sts[i])}
  IN  IF non = {} THEN 0 ELSE CHOOSE i \in non : \A j \in non : j <= i

\* what the bucket of rank r retains: the last resolving non-entity value,
\* if any, and the entity values resolved after it
Retained(sts, r) == ValuesAt(sts, {i \in Idx(sts, r) : i >= LastNonEntity(sts, r)})

\* C8, as claimed: a rank bucket that receives both resolved entity values
\* and resolved non-entity values keeps exactly the entity values.
C8_EntityPrecedence ==
  Aggregated =>
    \A p \in DOMAIN arg.d["claims"].d :
      LET sts == StatementsOf(p)
          ranks == RanksOf(sts)
      IN  ~IsRaise(ranks) =>
            \A r \in WikidataRanks :
              LET ent == {i \in Idx(sts, r) : StIsEntity(sts[i])}
              IN  (ent # {} /\ ent # Idx(sts, r)) =>
                    Bucket(ranks.o, r) = ValuesAt(sts, ent)

\* C8, amended: a resolved non-entity value replaces whatever its rank
\* bucket held; entity values resolved after it are appended.  The bucket
\* ends as the last resolved non-entity value of the rank, if any, followed
\* by the entity values resolved after it.
C8_NonEntityReplaces ==
  Aggregated =>
    \A p \in DOMAIN arg.d["claims"].d :
      LET sts == StatementsOf(p)
          ranks == RanksOf(sts)
      IN  ~IsRaise(ranks) =>
            \A r \in WikidataRanks : Bucket(ranks.o, r) = Retained(sts, r)

\* the bucket [entityRef -> "X", "B"] of rank normal resolves to "B"
C8_Witness ==
  /\ Materialized
  /\ _id_name_map = TestMap
  /\ "P31" \in DOMAIN arg.d["claims"].d
  /\ StatementsOf("P31") = <<Statement("normal", EntityRef("Q1")),
                              Statement("normal", DataValue("string", Str("B")))>>
  /\ out.properties.d["instance of"] = Str("B")

\* q is p in sorted order: the same values as often, none before a smaller one
SortedPermutation(q, p) ==
  /\ Len(q) = Len(p)
  /\ \A v \in {p[i] : i \in 1..Len(p)} \cup {q[i] : i \in 1..Len(q)} :
       Cardinality({i \in 1..Len(p) : p[i] = v}) = Cardinality({i \in 1..Len(q) : q[i] = v})
  /\ \A i, j \in 1..Len(q) : i < j => SortKey(q[i]) <= SortKey(q[j])

SameScalarKind(q) ==
  \/ \A i \in 1..Len(q) : q[i].k = "str"
  \/ \A i \in 1..Len(q) : q[i].k = "num"

\* the final value v is the collapse of the values q
CollapseOf(v, q) ==
  IF Len(q) = 1 THEN v = q[1] ELSE v.k = "list" /\ SortedPermutation(v.l, q)

\* C9, as claimed: when the winning bucket has k >= 2 resolved values of one
\* scalar kind the final value is the sorted list of all k, and it is a
\* scalar only when k = 1.  (The winning bucket is taken among preferred and
\* normal, where the rank order of the code and of the claim agree.)
C9_AllValuesSorted ==
  Materialized =>
    \A p \in NamedProps :
      LET sts == StatementsOf(p)
          win == FirstRank(sts, <<"preferred", "normal">>)
          vals == ValuesAt(sts, Idx(sts, win))
      IN  (win # "" /\ SameScalarKind(vals)) =>
            /\ NameOf(p).s \in DOMAIN out.properties.d
            /\ CollapseOf(out.properties.d[NameOf(p).s], vals)

\* C9, amended: the final value is the sorted list of the k >= 2 values the
\* winning bucket retains, and a scalar when it retains one; a non-entity
\* value replaces what the bucket held, so two string statements leave the
\* later one alone.
C9_RetainedValuesSorted ==
  Materialized =>
    \A p \in NamedProps :
      LET sts == StatementsOf(p)
          win == FirstRank(sts, <<"preferred", "normal">>)
          vals == Retained(sts, win)
      IN  (win # "" /\ SameScalarKind(vals)) =>
            /\ NameOf(p).s \in DOMAIN out.properties.d
            /\ CollapseOf(out.properties.d[NameOf(p).s], vals)

\* preferred entity values "Y", "X" give the list <<"X", "Y">>, and the
\* string statements "B", "C" would give "C"
C9_Witness ==
  /\ Materialized
  /\ _id_name_map = TestMap
  /\ "P31" \in DOMAIN arg.d["claims"].d
  /\ StatementsOf("P31") = <<Statement("preferred", EntityRef("Q3")),
                              Statement("preferred", EntityRef("Q1")),
                              Statement("normal", DataValue("string", Str("B")))>>
  /\ out.properties.d["instance of"] = List(<<Str("X"), Str("Y")>>)

\* C10: a globe coordinate resolves to None exactly when latitude and
\* longitude are both absent; otherwise to a dict with the given lat and
\* lng, with globe exactly when the globe id is not Q2 and is in the lookup.
C10_CoordinateResolution ==
  (/\ fn = "map_value"
   /\ out # NotCalled
   /\ ~IsRaise(out)
   /\ Get(arg, "type") = Str("globecoordinate")
   /\ Get(arg, "value").k = "dict") =>
    LET value == arg.d["value"]
        lat == Get(value, "latitude")
        lng == Get(value, "longitude")
        globe == LastSegment(IF Has(value, "globe") THEN value.d["globe"].s ELSE "")
    IN  /\ out = None <=> (lat = None /\ lng = None)
        /\ out # None =>
             /\ out.d["lat"] = lat
             /\ out.d["lng"] = lng
             /\ "globe" \in DOMAIN out.d <=> (globe # "Q2" /\ globe \in DOMAIN _id_name_map)

(***************************************************************************)
(* Properties of the raw page and of the infobox.                          *)
(***************************************************************************)
\* the normalised names of the templates of text, in the order of their
\* invocations: stripped, lower-cased, without the empty and the over-long
NormalizedNames(text) ==
  LET templates == FilterTemplates(text, 1)
      F[i \in 0..Len(templates)] ==
        IF i = 0 THEN << >>
        ELSE LET name == Strip(templates[i][1])
             IN  IF name # << >> /\ StrLen(name) < MaxTagLen
                 THEN Append(F[i - 1], Lower(Strip(name))) ELSE F[i - 1]
  IN  F[Len(templates)]

\* the first of the names that starts with the prefix, the prefix stripped;
\* None when no name has it
FirstInfobox(names) ==
  LET hits == {i \in 1..Len(names) : StartsWith(names[i], INFOBOX_PREFIX)}
  IN  IF hits = {} THEN None
      ELSE LET i == CHOOSE i \in hits : \A j \in hits : i <= j
           IN  Str(SubSeq(names[i], Len(INFOBOX_PREFIX) + 1, Len(names[i])))

\* C11: the infobox of every inserted row is the first normalised template
\* name of the page's text, in the order of the invocations, that starts with
\* the prefix, with the prefix stripped, and null when no name has it; so it
\* is a function of the text.
C11_FirstInfobox ==
  [][(pipeline = "wikipedia" /\ PageClose /\ last' = "insert") =>
       sink'[Len(sink) + 1].row.infobox = FirstInfobox(NormalizedNames(_values["text"]))]_vars

\* this step is endElement(name) for the active field name, in an open page
FieldClose(name) ==
  /\ elems # << >>
  /\ elems[Len(elems)] = name
  /\ elems' = SubSeq(elems, 1, Len(elems) - 1)
  /\ name = _state
  /\ \E i \in 1..Len(elems) : elems[i] = "page"

\* the field has a committed value for the open page: a value committed since
\* the page was opened (one that holds text delivered before the page was
\* opened is none)
CommittedInPage(name) ==
  name \in DOMAIN _values /\ Atoms(_values[name]) \subseteq own

\* C12: when a tracked field closes in a page while it is the active field,
\* the buffer and the active field are cleared, and the buffered text becomes
\* the field's value exactly when the field has no committed value yet for
\* the open page; a value committed in the page stays.  So the raw page
\* carries, for each field, the text of its first element closed in the page.
C12_FirstOccurrenceWins ==
  [][\A name \in Fields :
       FieldClose(name) =>
         /\ _buffer' = << >>
         /\ _state' = NoState
         /\ name \in DOMAIN _values'
         /\ _values'[name] = IF CommittedInPage(name) THEN _values[name]
                             ELSE Join(_buffer)]_vars

====
